---- MODULE Spec2Model ----
(***************************************************************************)
(* Content script of the STEPTWO gallery scraper (src/content.js):         *)
(*   - MemoryManager, the registry of listeners, observers, timers and     *)
(*     cleanup callbacks with its bulk release cleanupAll;                 *)
(*   - safeContentExecute, the race of an operation against a timer;       *)
(*   - the window 'error' / 'unhandledrejection' relay to the background.  *)
(* JavaScript runs each handler to completion, so every call is one step.  *)
(* Map and Set keep insertion order; they are sequences without repeats.   *)
(* MemoryManager.timers and MemoryManager.references are created by the    *)
(* constructor and never read or written again; they are left out. Timer   *)
(* delays are left out of the registry: a timer fires at any later step.   *)
(***************************************************************************)
EXTENDS Integers, Sequences, FiniteSets, TLC

VARIABLES
    eventListeners,    \* Map element -> Set of listenerInfo, as a sequence of entries
    observers,         \* Set of observer handles
    timeouts,          \* Set of one-shot timer ids
    intervals,         \* Set of repeating timer ids
    cleanupCallbacks,  \* Set of cleanup callbacks
    attached,          \* page: listeners attached to the elements
    connected,         \* page: observers constructed and not disconnected
    pendingTimeouts,   \* page: one-shot timers armed in the browser, [id, fn]
    activeIntervals,   \* page: repeating timers armed in the browser, [id, fn]
    nextBound,         \* identity of the next function made by Function.prototype.bind
    nextObserver,      \* identity of the next observer object
    nextTimer,         \* next id of the browser's timer pool (shared by both kinds)
    lastOp,            \* the call that produced this state: name, throw, page calls, result
    live,              \* history: registrations made and not yet unregistered or released
    guardCalls,        \* safeContentExecute: the invocations of wrapped functions
    now,               \* Date.now(), in ms since the script was loaded
    ticks,             \* how often the clock has advanced
    relayEvents        \* window 'error' / 'unhandledrejection' events, in order raised

registryVars == <<eventListeners, observers, timeouts, intervals, cleanupCallbacks>>
pageVars == <<attached, connected, pendingTimeouts, activeIntervals>>
idVars == <<nextBound, nextObserver, nextTimer>>
managerVars == <<eventListeners, observers, timeouts, intervals, cleanupCallbacks,
                 attached, connected, pendingTimeouts, activeIntervals,
                 nextBound, nextObserver, nextTimer, lastOp, live>>
guardVars == <<guardCalls, now, ticks>>
relayVars == <<relayEvents>>

\* ------------------------------------------------------------------ bounds
MaxCalls == 2   \* registrations made by top-level calls: identities handed out
                \* (bound functions, observers, timer ids) plus callbacks held

\* ------------------------------------------------------------------ inputs
Owners == {"o1", "o2"}
Events == {"click", "scroll"}
Handlers == {"h1"}
OptionValues == {"default"}
TimerFns == {"tick", "tickThrows"}
\* cleanup callbacks: one that returns, one that throws, one that registers
\* new resources through the registry while cleanupAll is running
CleanupFns == {"done", "fails", "registers"}

\* a caller's function, and the function bind() makes from it
Fn(name) == [fn |-> name, bind |-> 0]
Bind(handler, n) == [fn |-> handler.fn, bind |-> n]

\* ------------------------------------------------------------------ Set / Map
Range(s) == {s[i] : i \in 1..Len(s)}

SetAdd(s, x) == IF x \in Range(s) THEN s ELSE Append(s, x)

SetDelete(s, x) == SelectSeq(s, LAMBDA y : y # x)

MapHas(map, element) == \E i \in 1..Len(map) : map[i].element = element

MapIndex(map, element) == CHOOSE i \in 1..Len(map) : map[i].element = element

MapGet(map, element) == map[MapIndex(map, element)].listeners

MapSet(map, element, listeners) ==
    IF MapHas(map, element)
    THEN [map EXCEPT ![MapIndex(map, element)].listeners = listeners]
    ELSE Append(map, [element |-> element, listeners |-> listeners])

MapDelete(map, element) == SelectSeq(map, LAMBDA e : e.element # element)

\* ------------------------------------------------------------------ machine
\* The whole state as one record, so that a call made from inside a callback
\* is the same operator as the call made from the top level.
Cur ==
    [eventListeners |-> eventListeners, observers |-> observers,
     timeouts |-> timeouts, intervals |-> intervals,
     cleanupCallbacks |-> cleanupCallbacks,
     attached |-> attached, connected |-> connected,
     pendingTimeouts |-> pendingTimeouts, activeIntervals |-> activeIntervals,
     nextBound |-> nextBound, nextObserver |-> nextObserver, nextTimer |-> nextTimer,
     live |-> live,
     threw |-> FALSE, trace |-> <<>>, result |-> "undefined"]

Commit(m, name) ==
    /\ eventListeners' = m.eventListeners
    /\ observers' = m.observers
    /\ timeouts' = m.timeouts
    /\ intervals' = m.intervals
    /\ cleanupCallbacks' = m.cleanupCallbacks
    /\ attached' = m.attached
    /\ connected' = m.connected
    /\ pendingTimeouts' = m.pendingTimeouts
    /\ activeIntervals' = m.activeIntervals
    /\ nextBound' = m.nextBound
    /\ nextObserver' = m.nextObserver
    /\ nextTimer' = m.nextTimer
    /\ live' = m.live
    /\ lastOp' = [name |-> name, threw |-> m.threw, trace |-> m.trace, result |-> m.result]
    /\ UNCHANGED <<guardVars, relayVars>>

\* a call into the page, recorded in the order it is made
Call(kind, id, fn, threw) == [call |-> kind, id |-> id, fn |-> fn, threw |-> threw]

Traced(m, kind, id, fn, threw) == [m EXCEPT !.trace = Append(@, Call(kind, id, fn, threw))]

\* ------------------------------------------------------------------ the page
\* what element.addEventListener(event, handler, options) attaches
Listener(element, event, handler, options) ==
    [element |-> element, event |-> event, handler |-> handler,
     capture |-> (options = "capture")]

\* ------------------------------------------------------------------ MemoryManager
\* faulty variant: a record with the same event and original handler is not stored twice
addEventListener_Dedups(m, element, event, handler, options, attachThrows) ==
    LET boundHandler == Bind(handler, m.nextBound)
        listeners == IF MapHas(m.eventListeners, element)
                     THEN MapGet(m.eventListeners, element) ELSE <<>>
        listenerInfo == [event |-> event, handler |-> boundHandler,
                         originalHandler |-> handler, options |-> options,
                         element |-> element]
        known == \E i \in 1..Len(listeners) :
                    /\ listeners[i].event = event
                    /\ listeners[i].originalHandler = handler
        m1 == [m EXCEPT !.nextBound = @ + 1,
                        !.eventListeners =
                            IF known THEN @
                            ELSE MapSet(@, element, SetAdd(listeners, listenerInfo)),
                        !.live.listeners =
                            @ \cup {[element |-> element, id |-> boundHandler.bind]}]
        m2 == Traced(m1, "attach", boundHandler.bind, handler.fn, attachThrows)
    IN  IF attachThrows
        THEN [m2 EXCEPT !.threw = TRUE]
        ELSE [m2 EXCEPT !.attached =
                            @ \cup {Listener(element, event, boundHandler, options)},
                        !.result = boundHandler]

addEventListener(m, element, event, handler, options, attachThrows) ==
    LET boundHandler == Bind(handler, m.nextBound)
        listeners == IF MapHas(m.eventListeners, element)
                     THEN MapGet(m.eventListeners, element) ELSE <<>>
        listenerInfo == [event |-> event, handler |-> boundHandler,
                         originalHandler |-> handler, options |-> options,
                         element |-> element]
        m1 == [m EXCEPT !.nextBound = @ + 1,
                        !.eventListeners =
                            MapSet(@, element, SetAdd(listeners, listenerInfo)),
                        !.live.listeners =
                            @ \cup {[element |-> element, id |-> boundHandler.bind]}]
        m2 == Traced(m1, "attach", boundHandler.bind, handler.fn, attachThrows)
    IN  IF attachThrows
        THEN [m2 EXCEPT !.threw = TRUE]
        ELSE [m2 EXCEPT !.attached =
                            @ \cup {Listener(element, event, boundHandler, options)},
                        !.result = boundHandler]

\* faulty variant: the event kind is not compared
FindListener_AnyEvent(listeners, event, handler) ==
    LET hits == {i \in 1..Len(listeners) :
                    \/ listeners[i].handler = handler
                    \/ listeners[i].originalHandler = handler}
    IN  IF hits = {} THEN 0 ELSE CHOOSE i \in hits : \A j \in hits : i <= j

\* Array.from(listeners).find(...): the first match in insertion order, 0 if none
FindListener(listeners, event, handler) ==
    LET hits == {i \in 1..Len(listeners) :
                    /\ listeners[i].event = event
                    /\ \/ listeners[i].handler = handler
                       \/ listeners[i].originalHandler = handler}
    IN  IF hits = {} THEN 0 ELSE CHOOSE i \in hits : \A j \in hits : i <= j

\* faulty variant: the element's entry is kept when its last record is deleted
removeEventListener_KeepsKey(m, element, event, handler, detachThrows) ==
    IF ~MapHas(m.eventListeners, element) THEN m
    ELSE
    LET listeners == MapGet(m.eventListeners, element)
        found == FindListener(listeners, event, handler)
    IN  IF found = 0 THEN m
        ELSE
        LET listenerToRemove == listeners[found]
            m1 == Traced(m, "detach", listenerToRemove.handler.bind,
                         listenerToRemove.handler.fn, detachThrows)
            rest == SetDelete(listeners, listenerToRemove)
        IN  IF detachThrows
            THEN [m1 EXCEPT !.threw = TRUE]
            ELSE [m1 EXCEPT
                    !.attached = @ \ {Listener(element, event,
                                               listenerToRemove.handler,
                                               listenerToRemove.options)},
                    !.eventListeners = MapSet(@, element, rest),
                    !.live.listeners =
                        @ \ {[element |-> element,
                              id |-> listenerToRemove.handler.bind]}]

\* faulty variant: the record is deleted before the element's detach is called
removeEventListener_DeletesFirst(m, element, event, handler, detachThrows) ==
    IF ~MapHas(m.eventListeners, element) THEN m
    ELSE
    LET listeners == MapGet(m.eventListeners, element)
        found == FindListener(listeners, event, handler)
    IN  IF found = 0 THEN m
        ELSE
        LET listenerToRemove == listeners[found]
            rest == SetDelete(listeners, listenerToRemove)
            m1 == [m EXCEPT
                    !.eventListeners =
                        IF Len(rest) = 0
                        THEN MapDelete(@, element)
                        ELSE MapSet(@, element, rest),
                    !.live.listeners =
                        @ \ {[element |-> element,
                              id |-> listenerToRemove.handler.bind]}]
            m2 == Traced(m1, "detach", listenerToRemove.handler.bind,
                         listenerToRemove.handler.fn, detachThrows)
        IN  IF detachThrows
            THEN [m2 EXCEPT !.threw = TRUE]
            ELSE [m2 EXCEPT
                    !.attached = @ \ {Listener(element, event,
                                               listenerToRemove.handler,
                                               listenerToRemove.options)}]

removeEventListener(m, element, event, handler, detachThrows) ==
    IF ~MapHas(m.eventListeners, element) THEN m
    ELSE
    LET listeners == MapGet(m.eventListeners, element)
        found == FindListener(listeners, event, handler)
    IN  IF found = 0 THEN m
        ELSE
        LET listenerToRemove == listeners[found]
            m1 == Traced(m, "detach", listenerToRemove.handler.bind,
                         listenerToRemove.handler.fn, detachThrows)
            rest == SetDelete(listeners, listenerToRemove)
        IN  IF detachThrows
            THEN [m1 EXCEPT !.threw = TRUE]
            ELSE [m1 EXCEPT
                    !.attached = @ \ {Listener(element, event,
                                               listenerToRemove.handler,
                                               listenerToRemove.options)},
                    !.eventListeners =
                        IF Len(rest) = 0
                        THEN MapDelete(@, element)
                        ELSE MapSet(@, element, rest),
                    !.live.listeners =
                        @ \ {[element |-> element,
                              id |-> listenerToRemove.handler.bind]}]

createObserver(m, constructorThrows) ==
    IF constructorThrows
    THEN [Traced(m, "construct", m.nextObserver, "", TRUE) EXCEPT !.threw = TRUE]
    ELSE LET observer == m.nextObserver
         IN  [Traced(m, "construct", observer, "", FALSE) EXCEPT
                 !.nextObserver = @ + 1,
                 !.connected = @ \cup {observer},
                 !.observers = SetAdd(@, observer),
                 !.live.observers = @ \cup {observer},
                 !.result = observer]

setTimeout(m, callback) ==
    LET timeoutId == m.nextTimer
    IN  [m EXCEPT !.nextTimer = @ + 1,
                  !.pendingTimeouts = @ \cup {[id |-> timeoutId, fn |-> callback]},
                  !.timeouts = SetAdd(@, timeoutId),
                  !.result = timeoutId]

setInterval(m, callback) ==
    LET intervalId == m.nextTimer
    IN  [m EXCEPT !.nextTimer = @ + 1,
                  !.activeIntervals = @ \cup {[id |-> intervalId, fn |-> callback]},
                  !.intervals = SetAdd(@, intervalId),
                  !.result = intervalId]

\* the browser's clearTimeout / clearInterval: one pool of ids, unknown ids ignored
PageClear(m, id) ==
    [m EXCEPT !.pendingTimeouts = {t \in @ : t.id # id},
              !.activeIntervals = {t \in @ : t.id # id}]

\* faulty variant: the id is untracked but the browser's timer is not cleared
clearTimeout_KeepsTimer(m, timeoutId) ==
    IF timeoutId \in Range(m.timeouts)
    THEN [Traced(m, "clearTimeout", timeoutId, "", FALSE)
             EXCEPT !.timeouts = SetDelete(@, timeoutId)]
    ELSE m

clearTimeout(m, timeoutId) ==
    IF timeoutId \in Range(m.timeouts)
    THEN [PageClear(Traced(m, "clearTimeout", timeoutId, "", FALSE), timeoutId)
             EXCEPT !.timeouts = SetDelete(@, timeoutId)]
    ELSE m

\* faulty variant: the browser's timer is cleared whether the id is tracked or not
clearInterval_Unguarded(m, intervalId) ==
    [PageClear(Traced(m, "clearInterval", intervalId, "", FALSE), intervalId)
        EXCEPT !.intervals = SetDelete(@, intervalId)]

clearInterval(m, intervalId) ==
    IF intervalId \in Range(m.intervals)
    THEN [PageClear(Traced(m, "clearInterval", intervalId, "", FALSE), intervalId)
             EXCEPT !.intervals = SetDelete(@, intervalId)]
    ELSE m

addCleanupCallback(m, callback) ==
    [m EXCEPT !.cleanupCallbacks = SetAdd(@, callback),
              !.live.callbacks = @ \cup {callback}]

removeCleanupCallback(m, callback) ==
    [m EXCEPT !.cleanupCallbacks = SetDelete(@, callback),
              !.live.callbacks = @ \ {callback}]

getMemoryUsage(m) ==
    [m EXCEPT !.result =
        [eventListeners |-> Len(m.eventListeners),
         observers |-> Len(m.observers),
         timeouts |-> Len(m.timeouts),
         intervals |-> Len(m.intervals),
         cleanupCallbacks |-> Len(m.cleanupCallbacks)]]

\* --- cleanupAll, one phase per operator ---------------------------------
\* detach every listener of one element, a throwing detach is caught
\* faulty variant: cleanupAll detaches the original handler, which was never attached
RECURSIVE DetachListeners_OriginalHandler(_, _, _, _, _)
DetachListeners_OriginalHandler(m, element, listeners, i, detachFails) ==
    IF i > Len(listeners) THEN m
    ELSE
    LET listener == listeners[i]
        fails == listener.handler.bind \in detachFails
        m1 == Traced(m, "detach", listener.handler.bind, listener.handler.fn, fails)
        m2 == IF fails THEN m1
              ELSE [m1 EXCEPT !.attached =
                        @ \ {Listener(element, listener.event,
                                      listener.originalHandler, listener.options)}]
    IN  DetachListeners_OriginalHandler(m2, element, listeners, i + 1, detachFails)

RECURSIVE DetachListeners(_, _, _, _, _)
DetachListeners(m, element, listeners, i, detachFails) ==
    IF i > Len(listeners) THEN m
    ELSE
    LET listener == listeners[i]
        fails == listener.handler.bind \in detachFails
        m1 == Traced(m, "detach", listener.handler.bind, listener.handler.fn, fails)
        m2 == IF fails THEN m1
              ELSE [m1 EXCEPT !.attached =
                        @ \ {Listener(element, listener.event, listener.handler,
                                      listener.options)}]
    IN  DetachListeners(m2, element, listeners, i + 1, detachFails)

RECURSIVE CleanupListeners(_, _, _)
CleanupListeners(m, i, detachFails) ==
    IF i > Len(m.eventListeners)
    THEN [m EXCEPT !.eventListeners = <<>>, !.live.listeners = {}]
    ELSE CleanupListeners(
            DetachListeners(m, m.eventListeners[i].element,
                            m.eventListeners[i].listeners, 1, detachFails),
            i + 1, detachFails)

RECURSIVE CleanupObservers(_, _, _)
CleanupObservers(m, i, disconnectFails) ==
    IF i > Len(m.observers)
    THEN [m EXCEPT !.observers = <<>>, !.live.observers = {}]
    ELSE
    LET observer == m.observers[i]
        fails == observer \in disconnectFails
        m1 == Traced(m, "disconnect", observer, "", fails)
        m2 == IF fails THEN m1 ELSE [m1 EXCEPT !.connected = @ \ {observer}]
    IN  CleanupObservers(m2, i + 1, disconnectFails)

RECURSIVE CleanupTimeouts(_, _)
CleanupTimeouts(m, i) ==
    IF i > Len(m.timeouts)
    THEN [m EXCEPT !.timeouts = <<>>]
    ELSE CleanupTimeouts(
            PageClear(Traced(m, "clearTimeout", m.timeouts[i], "", FALSE),
                      m.timeouts[i]),
            i + 1)

\* faulty variant: intervals is emptied without clearing the browser's timers
RECURSIVE CleanupIntervals_OnlyUntracks(_, _)
CleanupIntervals_OnlyUntracks(m, i) ==
    IF i > Len(m.intervals)
    THEN [m EXCEPT !.intervals = <<>>]
    ELSE CleanupIntervals_OnlyUntracks(
            Traced(m, "clearInterval", m.intervals[i], "", FALSE), i + 1)

RECURSIVE CleanupIntervals(_, _)
CleanupIntervals(m, i) ==
    IF i > Len(m.intervals)
    THEN [m EXCEPT !.intervals = <<>>]
    ELSE CleanupIntervals(
            PageClear(Traced(m, "clearInterval", m.intervals[i], "", FALSE),
                      m.intervals[i]),
            i + 1)

\* what a cleanup callback does when cleanupAll calls it
InvokeCleanup(m, callback) ==
    LET m1 == Traced(m, "cleanup", 0, callback, callback = "fails")
    IN  IF callback = "registers"
        THEN addCleanupCallback(
               setInterval(
                 setTimeout(
                   createObserver(
                     addEventListener(m1, "o1", "click", Fn("h1"), "default", FALSE),
                     FALSE),
                   "tick"),
                 "tick"),
               "done")
        ELSE m1

\* for (const callback of this.cleanupCallbacks): an entry added during the
\* loop is visited by it
\* faulty variant: cleanupCallbacks is not cleared after the callbacks have run
RECURSIVE CleanupCallbacks_KeepsCallbacks(_, _)
CleanupCallbacks_KeepsCallbacks(m, i) ==
    IF i > Len(m.cleanupCallbacks)
    THEN m
    ELSE CleanupCallbacks_KeepsCallbacks(InvokeCleanup(m, m.cleanupCallbacks[i]), i + 1)

RECURSIVE CleanupCallbacks(_, _)
CleanupCallbacks(m, i) ==
    IF i > Len(m.cleanupCallbacks)
    THEN [m EXCEPT !.cleanupCallbacks = <<>>, !.live.callbacks = {}]
    ELSE CleanupCallbacks(InvokeCleanup(m, m.cleanupCallbacks[i]), i + 1)

\* faulty variant: the cleanup callbacks run before the repeating timers are cleared
cleanupAll_CallbacksBeforeIntervals(m, detachFails, disconnectFails) ==
    LET done == CleanupIntervals(
                    CleanupCallbacks(
                        CleanupTimeouts(
                            CleanupObservers(
                                CleanupListeners(m, 1, detachFails),
                                1, disconnectFails),
                            1),
                        1),
                    1)
    IN  [done EXCEPT !.result = "undefined"]

cleanupAll(m, detachFails, disconnectFails) ==
    LET done == CleanupCallbacks(
                    CleanupIntervals(
                        CleanupTimeouts(
                            CleanupObservers(
                                CleanupListeners(m, 1, detachFails),
                                1, disconnectFails),
                            1),
                        1),
                    1)
    IN  [done EXCEPT !.result = "undefined"]

\* --- timers firing ------------------------------------------------------
\* faulty variant: the fired timer's id is not deleted from timeouts
TimeoutFired_StaysTracked(m, timer) ==
    LET m1 == [m EXCEPT !.pendingTimeouts = @ \ {timer}]
        m2 == Traced(m1, "callback", timer.id, timer.fn, timer.fn = "tickThrows")
    IN  [m2 EXCEPT !.threw = (timer.fn = "tickThrows"),
                   !.result = [tracked |-> timer.id \in Range(m1.timeouts)]]

\* faulty variant: the id is deleted after the callback, so not when it throws
TimeoutFired_DeletesAfter(m, timer) ==
    LET m0 == [m EXCEPT !.pendingTimeouts = @ \ {timer}]
        m1 == Traced(m0, "callback", timer.id, timer.fn, timer.fn = "tickThrows")
        m2 == IF timer.fn = "tickThrows" THEN m1
              ELSE [m1 EXCEPT !.timeouts = SetDelete(@, timer.id)]
    IN  [m2 EXCEPT !.threw = (timer.fn = "tickThrows"),
                   !.result = [tracked |-> timer.id \in Range(m0.timeouts)]]

\* the arrow function setTimeout() arms: untrack, then run the caller's callback
TimeoutFired(m, timer) ==
    LET m0 == [m EXCEPT !.pendingTimeouts = @ \ {timer}]
        m1 == [m0 EXCEPT !.timeouts = SetDelete(@, timer.id)]
        m2 == Traced(m1, "callback", timer.id, timer.fn, timer.fn = "tickThrows")
    IN  [m2 EXCEPT !.threw = (timer.fn = "tickThrows"),
                   !.result = [tracked |-> timer.id \in Range(m1.timeouts)]]

IntervalFired(m, timer) ==
    [Traced(m, "callback", timer.id, timer.fn, timer.fn = "tickThrows")
        EXCEPT !.threw = (timer.fn = "tickThrows")]

\* ------------------------------------------------------------------ actions
\* functions made by bind() so far, as a caller may hold them
BoundHandlers == {Bind(Fn(h), n) : h \in Handlers, n \in 1..(nextBound - 1)}

TimerIds == 1..(nextTimer - 1)

\* registrations counted against MaxCalls
Used(m) ==
    (m.nextBound - 1) + (m.nextObserver - 1) + (m.nextTimer - 1)
        + Len(m.cleanupCallbacks)

Init ==
    /\ eventListeners = <<>>
    /\ observers = <<>>
    /\ timeouts = <<>>
    /\ intervals = <<>>
    /\ cleanupCallbacks = <<>>
    /\ attached = {}
    /\ connected = {}
    /\ pendingTimeouts = {}
    /\ activeIntervals = {}
    /\ nextBound = 1
    /\ nextObserver = 1
    /\ nextTimer = 1
    /\ lastOp = [name |-> "constructor", threw |-> FALSE, trace |-> <<>>,
                 result |-> "undefined"]
    /\ live = [listeners |-> {}, observers |-> {}, callbacks |-> {}]
    /\ guardCalls = <<>>
    /\ now = 0
    /\ ticks = 0
    /\ relayEvents = <<>>

AddEventListener ==
    \E element \in Owners, event \in Events, h \in Handlers,
       options \in OptionValues, attachThrows \in BOOLEAN :
        /\ Used(Cur) < MaxCalls
        /\ Commit(addEventListener(Cur, element, event, Fn(h), options, attachThrows),
                  "addEventListener")

RemoveEventListener ==
    \E element \in Owners, event \in Events,
       handler \in {Fn(h) : h \in Handlers} \cup BoundHandlers,
       detachThrows \in BOOLEAN :
        Commit(removeEventListener(Cur, element, event, handler, detachThrows),
               "removeEventListener")

CreateObserver ==
    \E constructorThrows \in BOOLEAN :
        /\ Used(Cur) < MaxCalls
        /\ Commit(createObserver(Cur, constructorThrows), "createObserver")

SetTimeout ==
    \E callback \in TimerFns :
        /\ Used(Cur) < MaxCalls
        /\ Commit(setTimeout(Cur, callback), "setTimeout")

SetInterval ==
    \E callback \in TimerFns :
        /\ Used(Cur) < MaxCalls
        /\ Commit(setInterval(Cur, callback), "setInterval")

ClearTimeout ==
    \E timeoutId \in TimerIds : Commit(clearTimeout(Cur, timeoutId), "clearTimeout")

ClearInterval ==
    \E intervalId \in TimerIds : Commit(clearInterval(Cur, intervalId), "clearInterval")

AddCleanupCallback ==
    \E callback \in CleanupFns :
        /\ Used(Cur) < MaxCalls
        /\ Commit(addCleanupCallback(Cur, callback), "addCleanupCallback")

RemoveCleanupCallback ==
    \E callback \in CleanupFns :
        Commit(removeCleanupCallback(Cur, callback), "removeCleanupCallback")

CleanupAll ==
    \E detachFails \in SUBSET {l.handler.bind : l \in attached},
       disconnectFails \in SUBSET Range(observers) :
        Commit(cleanupAll(Cur, detachFails, disconnectFails), "cleanupAll")

GetMemoryUsage == Commit(getMemoryUsage(Cur), "getMemoryUsage")

FireTimeout ==
    \E timer \in pendingTimeouts : Commit(TimeoutFired(Cur, timer), "timeout")

FireInterval ==
    \E timer \in activeIntervals : Commit(IntervalFired(Cur, timer), "interval")

vars == <<managerVars, guardVars, relayVars>>

Next ==
    \/ AddEventListener
    \/ RemoveEventListener
    \/ CreateObserver
    \/ SetTimeout
    \/ SetInterval
    \/ ClearTimeout
    \/ ClearInterval
    \/ AddCleanupCallback
    \/ RemoveCleanupCallback
    \/ CleanupAll
    \/ GetMemoryUsage
    \/ FireTimeout
    \/ FireInterval

Spec == Init /\ [][Next]_vars

\* ------------------------------------------------------------------ safeContentExecute
MAX_EXECUTION_TIME == 30000
SLOW_EXECUTION_TIME == 5000

MaxInvocations == 1   \* invocations of wrapped functions
MaxTicks == 2         \* advances of the clock

Values == {"a", "b"}
OpErrors == {"boom"}
Delays == {100, SLOW_EXECUTION_TIME + 1, MAX_EXECUTION_TIME}

\* promises
Pending == [state |-> "pending", value |-> "none"]
Fulfilled(v) == [state |-> "fulfilled", value |-> v]
Rejected(e) == [state |-> "rejected", value |-> e]
Outcomes == {Fulfilled(v) : v \in Values} \cup {Rejected(e) : e \in OpErrors}

\* resolve / reject of a promise: only the first one counts
Settle(promise, outcome) == IF promise.state = "pending" THEN outcome ELSE promise

\* new Error('Execution timeout'), what the timer rejects with
TimeoutError == Rejected("Execution timeout")

\* faulty variant: the timer is armed with no delay
Invoke_NoDelay(calls, clock, behaviour, outcome) ==
    LET call == [startTime |-> clock, op |-> Pending, timer |-> "none",
                 due |-> 0, race |-> Pending, wrapped |-> Pending,
                 slow |-> FALSE, opFirst |-> FALSE, timerFirst |-> FALSE]
    IN  Append(calls,
          CASE behaviour = "throws" ->
                 [call EXCEPT !.op = outcome, !.wrapped = outcome, !.opFirst = TRUE]
            [] behaviour = "returns" ->
                 [call EXCEPT !.op = outcome, !.opFirst = TRUE,
                              !.timer = "armed", !.due = clock,
                              !.race = Settle(@, outcome)]
            [] OTHER ->
                 [call EXCEPT !.timer = "armed", !.due = clock])

\* wrapped(...args) up to its await. fn throws before returning, returns a
\* value (or a settled promise), or returns a promise still pending.
Invoke(calls, clock, behaviour, outcome) ==
    LET call == [startTime |-> clock, op |-> Pending, timer |-> "none",
                 due |-> 0, race |-> Pending, wrapped |-> Pending,
                 slow |-> FALSE, opFirst |-> FALSE, timerFirst |-> FALSE]
    IN  Append(calls,
          CASE behaviour = "throws" ->
                 \* the array literal is not built, the catch block rethrows
                 [call EXCEPT !.op = outcome, !.wrapped = outcome, !.opFirst = TRUE]
            [] behaviour = "returns" ->
                 [call EXCEPT !.op = outcome, !.opFirst = TRUE,
                              !.timer = "armed",
                              !.due = clock + MAX_EXECUTION_TIME,
                              !.race = Settle(@, outcome)]
            [] OTHER ->
                 [call EXCEPT !.timer = "armed",
                              !.due = clock + MAX_EXECUTION_TIME])

\* the promise fn returned settles: Promise.race settles with it if it is first
OpSettled(call, outcome) ==
    [call EXCEPT !.op = outcome,
                 !.opFirst = (call.timer # "fired"),
                 !.race = Settle(@, outcome)]

\* the timer's callback: reject(new Error('Execution timeout'))
TimerFired(call) ==
    [call EXCEPT !.timer = "fired",
                 !.timerFirst = (call.op.state = "pending"),
                 !.race = Settle(@, TimeoutError)]

\* faulty variant: the catch block does not rethrow
Resumed_Swallows(call, clock) ==
    LET executionTime == clock - call.startTime
    IN  IF call.race.state = "fulfilled"
        THEN [call EXCEPT !.slow = (executionTime > SLOW_EXECUTION_TIME),
                          !.wrapped = Settle(@, call.race)]
        ELSE [call EXCEPT !.wrapped = Settle(@, Fulfilled("undefined"))]

\* the code after the await: return result, or the catch block's throw error
Resumed(call, clock) ==
    LET executionTime == clock - call.startTime
    IN  IF call.race.state = "fulfilled"
        THEN [call EXCEPT !.slow = (executionTime > SLOW_EXECUTION_TIME),
                          !.wrapped = Settle(@, call.race)]
        ELSE [call EXCEPT !.wrapped = Settle(@, call.race)]

\* a microtask is queued: an await whose promise has settled
Awaiting(call) == call.race.state # "pending" /\ call.wrapped.state = "pending"

MicrotasksDone == \A c \in 1..Len(guardCalls) : ~Awaiting(guardCalls[c])

GuardInvoke ==
    \E behaviour \in {"throws", "returns", "pending"}, outcome \in Outcomes :
        /\ MicrotasksDone
        /\ Len(guardCalls) < MaxInvocations
        /\ behaviour = "throws" => outcome.state = "rejected"
        /\ behaviour = "pending" => outcome = Rejected("boom")
        /\ guardCalls' = Invoke(guardCalls, now, behaviour, outcome)
        /\ UNCHANGED <<now, ticks, managerVars, relayVars>>

GuardOpSettles ==
    \E c \in 1..Len(guardCalls), outcome \in Outcomes :
        /\ MicrotasksDone
        /\ guardCalls[c].op.state = "pending"
        /\ guardCalls' = [guardCalls EXCEPT ![c] = OpSettled(@, outcome)]
        /\ UNCHANGED <<now, ticks, managerVars, relayVars>>

GuardTimerFires ==
    \E c \in 1..Len(guardCalls) :
        /\ MicrotasksDone
        /\ guardCalls[c].timer = "armed"
        /\ now >= guardCalls[c].due
        /\ guardCalls' = [guardCalls EXCEPT ![c] = TimerFired(@)]
        /\ UNCHANGED <<now, ticks, managerVars, relayVars>>

GuardResumes ==
    \E c \in 1..Len(guardCalls) :
        /\ Awaiting(guardCalls[c])
        /\ guardCalls' = [guardCalls EXCEPT ![c] = Resumed(@, now)]
        /\ UNCHANGED <<now, ticks, managerVars, relayVars>>

Tick ==
    \E d \in Delays :
        /\ MicrotasksDone
        /\ ticks < MaxTicks
        /\ now' = now + d
        /\ ticks' = ticks + 1
        /\ UNCHANGED <<guardCalls, managerVars, relayVars>>

NextGuard ==
    \/ GuardInvoke
    \/ GuardOpSettles
    \/ GuardTimerFires
    \/ GuardResumes
    \/ Tick

SpecGuard == Init /\ [][NextGuard]_vars

\* ------------------------------------------------------------------ error relay
MaxEvents == 3   \* events raised on window, by the page or by the relay's own failures

\* what chrome.runtime.sendMessage(...) does with no callback given: returns
\* (nothing more happens), throws (extension context invalidated), or returns
\* a promise that settles later (rejected when no receiver answers)
SendOutcomes == {"returned", "threw", "promise"}

\* an event on window. cause = 0: raised by the page; cause = k: raised by the
\* browser because of what the relay did while handling event k.
Event(type, hasError, cause) ==
    [type |-> type, hasError |-> hasError, cause |-> cause,
     handled |-> FALSE, sends |-> 0, send |-> "none", logged |-> 0]

\* handleScrapingError(message): one sendMessage, a synchronous throw is
\* caught and logged with console.error
handleScrapingError(event, sendOutcome) ==
    [event EXCEPT !.sends = @ + 1,
                  !.send = sendOutcome,
                  !.logged = IF sendOutcome = "threw" THEN @ + 1 ELSE @]

\* the 'error' listener: event.error.message throws when event.error is null
ErrorListener(event, sendOutcome) ==
    IF event.hasError
    THEN handleScrapingError([event EXCEPT !.handled = TRUE], sendOutcome)
    ELSE [event EXCEPT !.handled = TRUE, !.send = "listenerThrew"]

\* the 'unhandledrejection' listener
RejectionListener(event, sendOutcome) ==
    handleScrapingError([event EXCEPT !.handled = TRUE], sendOutcome)

PageRaises ==
    \E type \in {"error", "unhandledrejection"}, hasError \in BOOLEAN :
        /\ Len(relayEvents) < MaxEvents
        /\ type = "unhandledrejection" => hasError
        /\ relayEvents' = Append(relayEvents, Event(type, hasError, 0))
        /\ UNCHANGED <<managerVars, guardVars>>

\* the browser dispatches an event to its listener; an exception thrown by the
\* listener is reported as a new 'error' event
Dispatch ==
    \E i \in 1..Len(relayEvents), sendOutcome \in SendOutcomes :
        /\ ~relayEvents[i].handled
        /\ LET after == IF relayEvents[i].type = "error"
                        THEN ErrorListener(relayEvents[i], sendOutcome)
                        ELSE RejectionListener(relayEvents[i], sendOutcome)
               events == [relayEvents EXCEPT ![i] = after]
           IN  IF after.send = "listenerThrew"
               THEN /\ Len(relayEvents) < MaxEvents
                    /\ relayEvents' = Append(events, Event("error", TRUE, i))
               ELSE relayEvents' = events
        /\ UNCHANGED <<managerVars, guardVars>>

\* the promise sendMessage returned settles; nothing handles its rejection, so
\* the browser raises 'unhandledrejection' for it
SendSettles ==
    \E i \in 1..Len(relayEvents), delivered \in BOOLEAN :
        /\ relayEvents[i].send = "promise"
        /\ IF delivered
           THEN relayEvents' = [relayEvents EXCEPT ![i].send = "delivered"]
           ELSE /\ Len(relayEvents) < MaxEvents
                /\ relayEvents' =
                     Append([relayEvents EXCEPT ![i].send = "rejected"],
                            Event("unhandledrejection", TRUE, i))
        /\ UNCHANGED <<managerVars, guardVars>>

NextRelay ==
    \/ PageRaises
    \/ Dispatch
    \/ SendSettles

SpecRelay == Init /\ [][NextRelay]_vars

\* ------------------------------------------------------------------ properties
RecordCount(map) ==
    Cardinality({<<i, j>> \in (1..Len(map)) \X (1..MaxCalls + 2) :
                    j <= Len(map[i].listeners)})

AllEmpty(m) ==
    /\ m.eventListeners = <<>>
    /\ m.observers = <<>>
    /\ m.timeouts = <<>>
    /\ m.intervals = <<>>
    /\ m.cleanupCallbacks = <<>>

\* C1: no owner is keyed in eventListeners with an empty set of records, and
\* an owner whose registered listeners have all been unregistered (or that
\* never had one) is not a key of eventListeners.
C1_NoEmptyListenerSet ==
    /\ \A i \in 1..Len(eventListeners) : Len(eventListeners[i].listeners) > 0
    /\ \A owner \in Owners :
          (\A r \in live.listeners : r.element # owner)
              => ~MapHas(eventListeners, owner)

\* two listeners were registered and the last of them has just been unregistered
C1_Witness ==
    /\ lastOp.name = "removeEventListener"
    /\ ~lastOp.threw
    /\ Len(lastOp.trace) = 1
    /\ nextBound = 3
    /\ live.listeners = {}
    /\ eventListeners = <<>>

\* C2: a cleanupAll called immediately after a cleanupAll does not throw,
\* changes no tracked collection and makes no detach, disconnect, timer-clear
\* or cleanup-callback call.
C2_SecondCleanupIsNoOp ==
    [][(lastOp.name = "cleanupAll" /\ lastOp'.name = "cleanupAll")
          => /\ ~lastOp'.threw
             /\ lastOp'.trace = <<>>
             /\ registryVars' = registryVars]_vars

\* the entries of a trace that are calls of one kind
CallsOf(trace, kind) == {trace[i] : i \in {j \in 1..Len(trace) : trace[j].call = kind}}

\* every item tracked before the call has its teardown attempted by the call
TeardownAttempted(trace) ==
    /\ \A i \in 1..Len(eventListeners) :
          \A j \in 1..Len(eventListeners[i].listeners) :
             \E c \in CallsOf(trace, "detach") :
                c.id = eventListeners[i].listeners[j].handler.bind
    /\ \A o \in Range(observers) :
          \E c \in CallsOf(trace, "disconnect") : c.id = o
    /\ \A t \in Range(timeouts) :
          \E c \in CallsOf(trace, "clearTimeout") : c.id = t
    /\ \A t \in Range(intervals) :
          \E c \in CallsOf(trace, "clearInterval") : c.id = t
    /\ \A f \in Range(cleanupCallbacks) :
          \E c \in CallsOf(trace, "cleanup") : c.fn = f

\* C3: whatever subset of detaches, disconnects and cleanup callbacks throws,
\* cleanupAll does not throw, attempts the teardown of every tracked item and
\* ends with the five collections empty.
C3_TeardownResilient ==
    [][lastOp'.name = "cleanupAll"
          => /\ ~lastOp'.threw
             /\ TeardownAttempted(lastOp'.trace)
             /\ AllEmpty(Cur)']_vars

\* C4: getMemoryUsage reports the owners with a live listener registration,
\* the observers created and not released, the one-shot timers scheduled and
\* neither fired nor cancelled, the repeating timers not cancelled and the
\* cleanup callbacks registered and not removed; all five are 0 after
\* cleanupAll; and the call changes no state.
C4_UsageMatchesLive ==
    LET after == getMemoryUsage(Cur)
        usage == after.result
    IN  /\ usage.eventListeners = Cardinality({r.element : r \in live.listeners})
        /\ usage.observers = Cardinality(live.observers)
        /\ usage.timeouts = Cardinality(pendingTimeouts)
        /\ usage.intervals = Cardinality(activeIntervals)
        /\ usage.cleanupCallbacks = Cardinality(live.callbacks)
        /\ lastOp.name = "cleanupAll"
              => usage = [eventListeners |-> 0, observers |-> 0, timeouts |-> 0,
                          intervals |-> 0, cleanupCallbacks |-> 0]
        /\ [after EXCEPT !.result = "undefined"] = Cur

\* the counts of C4 without the claim about cleanupAll
UsageCountsLive ==
    LET usage == getMemoryUsage(Cur).result
    IN  /\ usage.eventListeners = Cardinality({r.element : r \in live.listeners})
        /\ usage.observers = Cardinality(live.observers)
        /\ usage.timeouts = Cardinality(pendingTimeouts)
        /\ usage.intervals = Cardinality(activeIntervals)
        /\ usage.cleanupCallbacks = Cardinality(live.callbacks)

\* registrations of listeners, observers and timers each add one entry;
\* a removeEventListener that detached removes one record, any other none
OneEntryPerCall ==
    /\ lastOp'.name = "addEventListener"
          => RecordCount(eventListeners') = RecordCount(eventListeners) + 1
    /\ (lastOp'.name = "createObserver" /\ ~lastOp'.threw)
          => Len(observers') = Len(observers) + 1
    /\ lastOp'.name = "setTimeout" => Len(timeouts') = Len(timeouts) + 1
    /\ lastOp'.name = "setInterval" => Len(intervals') = Len(intervals) + 1
    /\ lastOp'.name = "removeEventListener"
          => RecordCount(eventListeners') =
                IF lastOp'.trace # <<>> /\ ~lastOp'.threw
                THEN RecordCount(eventListeners) - 1
                ELSE RecordCount(eventListeners)

\* C5 as claimed: every registration call, addCleanupCallback included, adds
\* exactly one new entry to its collection.
C5_NoDedupAnywhere ==
    [][/\ OneEntryPerCall
       /\ lastOp'.name = "addCleanupCallback"
             => Len(cleanupCallbacks') = Len(cleanupCallbacks) + 1]_vars

\* C5 amended: registrations of listeners, observers and timers each add one
\* new entry, repeated arguments included, and each removeEventListener that
\* detached removes exactly one record; addCleanupCallback adds one entry
\* only for a callback that is not registered yet, and changes nothing for
\* one that is.
C5_DedupOnlyOfCleanupCallbacks ==
    [][/\ OneEntryPerCall
       /\ \A callback \in CleanupFns :
             (/\ lastOp'.name = "addCleanupCallback"
              /\ Commit(addCleanupCallback(Cur, callback), "addCleanupCallback"))
                => cleanupCallbacks' =
                      IF callback \in Range(cleanupCallbacks)
                      THEN cleanupCallbacks
                      ELSE Append(cleanupCallbacks, callback)]_vars

\* the same handler is registered twice on the same owner and event
C5_Witness ==
    /\ lastOp.name = "addEventListener"
    /\ \E i \in 1..Len(eventListeners) :
          LET listeners == eventListeners[i].listeners
          IN  /\ Len(listeners) = 2
              /\ listeners[1].event = listeners[2].event
              /\ listeners[1].originalHandler = listeners[2].originalHandler
              /\ listeners[1].handler # listeners[2].handler

\* C6: a one-shot timer that fires is not in timeouts when its callback runs
\* nor at any later time, and a repeating timer stays in intervals, firings
\* included, until clearInterval or cleanupAll removes it.
C6_FiredUntrackedRepeatingKept ==
    [][/\ lastOp'.name = "timeout"
             => /\ ~lastOp'.result.tracked
                /\ lastOp'.trace[1].id \notin Range(timeouts')
       /\ \A id \in TimerIds :
             id \notin Range(timeouts) => id \notin Range(timeouts')
       /\ \A id \in Range(intervals) :
             lastOp'.name \notin {"clearInterval", "cleanupAll"}
                => id \in Range(intervals')]_vars

\* a one-shot timer has fired while a repeating timer, armed and tracked, stays
C6_Witness ==
    /\ lastOp.name = "timeout"
    /\ ~lastOp.result.tracked
    /\ timeouts = <<>>
    /\ Len(intervals) = 1
    /\ \E t \in activeIntervals : t.id \in Range(intervals)

\* no record of element has the event and, as wrapped or original, the handler
NoMatch(element, event, handler) ==
    \A i \in 1..Len(eventListeners) :
        eventListeners[i].element = element
            => \A j \in 1..Len(eventListeners[i].listeners) :
                  LET l == eventListeners[i].listeners[j]
                  IN  ~(l.event = event
                          /\ (l.handler = handler \/ l.originalHandler = handler))

\* the records of a map, each with the element it is stored under
Records(map) ==
    {[element |-> map[i].element, record |-> map[i].listeners[j]] :
        <<i, j>> \in {p \in (1..Len(map)) \X (1..MaxCalls + 2) :
                        p[2] <= Len(map[p[1]].listeners)}}

\* C7: in every reachable state, removeEventListener(element, event, h)
\* removes only a record stored under element with that event and with h as
\* wrapped or original handler; with no such record it does not throw,
\* detaches nothing and leaves the collections and the page unchanged.
C7_RemoveOnlyOnMatch ==
    \A element \in Owners, event \in Events,
       handler \in {Fn(h) : h \in Handlers} \cup BoundHandlers,
       detachThrows \in BOOLEAN :
        LET m == removeEventListener(Cur, element, event, handler, detachThrows)
        IN  /\ NoMatch(element, event, handler)
                  => /\ ~m.threw
                     /\ m.trace = <<>>
                     /\ m = Cur
            /\ \A r \in Records(eventListeners) \ Records(m.eventListeners) :
                  /\ r.element = element
                  /\ r.record.event = event
                  /\ \/ r.record.handler = handler
                     \/ r.record.originalHandler = handler

\* a removeEventListener that matched nothing while records were tracked
C7_Witness ==
    /\ lastOp.name = "removeEventListener"
    /\ lastOp.trace = <<>>
    /\ ~lastOp.threw
    /\ RecordCount(eventListeners) = 2

\* the wrapped call has settled with the outcome, or the microtask that will
\* settle it with the outcome is queued
SettlesWith(call, outcome) ==
    \/ call.wrapped = outcome
    \/ Awaiting(call) /\ call.race = outcome

\* C8: when the operation settles before the timer fires, the wrapped call
\* settles with exactly the operation's value or failure, and the timer
\* firing afterwards does not change that.
C8_OperationWins ==
    \A c \in 1..Len(guardCalls) :
        guardCalls[c].opFirst => SettlesWith(guardCalls[c], guardCalls[c].op)

\* the operation resolved first, the timer has fired since, the result stands
C8_Witness ==
    \E c \in 1..Len(guardCalls) :
        /\ guardCalls[c].opFirst
        /\ guardCalls[c].timer = "fired"
        /\ guardCalls[c].op.state = "fulfilled"
        /\ guardCalls[c].wrapped = guardCalls[c].op

\* C9: when the timer fires before the operation settles, the wrapped call
\* fails with the timeout error, whatever the operation does later; and it
\* fails with the timeout error only once the timer has fired, which is not
\* before MAX_EXECUTION_TIME has passed.
C9_TimerWins ==
    \A c \in 1..Len(guardCalls) :
        /\ guardCalls[c].timerFirst => SettlesWith(guardCalls[c], TimeoutError)
        /\ (guardCalls[c].wrapped = TimeoutError \/ guardCalls[c].race = TimeoutError)
              => /\ guardCalls[c].timer = "fired"
                 /\ guardCalls[c].timerFirst
                 /\ now >= guardCalls[c].startTime + MAX_EXECUTION_TIME

\* the timer fired first and the operation settled afterwards: still a timeout
C9_Witness ==
    \E c \in 1..Len(guardCalls) :
        /\ guardCalls[c].timerFirst
        /\ guardCalls[c].op.state # "pending"
        /\ guardCalls[c].wrapped = TimeoutError

\* C10: each event leads to at most one send attempt, no event on window is
\* raised because a send failed, and a failed send is followed by no further
\* send attempt on its account.
C10_RelayContained ==
    \A i \in 1..Len(relayEvents) :
        /\ relayEvents[i].sends <= 1
        /\ relayEvents[i].cause # 0
              => relayEvents[relayEvents[i].cause].send \notin {"threw", "rejected"}

\* the phase of cleanupAll a call into the page belongs to; what a cleanup
\* callback does itself (attach, construct) is part of the last phase
Phase(call) ==
    CASE call.call = "detach" -> 1
      [] call.call = "disconnect" -> 2
      [] call.call = "clearTimeout" -> 3
      [] call.call = "clearInterval" -> 4
      [] OTHER -> 5

\* C11: in every cleanupAll the calls are ordered by phase: every detach
\* comes before any disconnect, every disconnect before any one-shot clear,
\* every one-shot clear before any repeating clear, and every timer clear
\* before any cleanup callback is invoked.
C11_PhaseOrder ==
    lastOp.name = "cleanupAll"
        => \A i, j \in 1..Len(lastOp.trace) :
              i < j => Phase(lastOp.trace[i]) <= Phase(lastOp.trace[j])

\* a cleanupAll that released a listener, an observer, a one-shot timer and
\* a repeating timer
C11_Witness ==
    /\ lastOp.name = "cleanupAll"
    /\ 1..4 \subseteq {Phase(lastOp.trace[i]) : i \in 1..Len(lastOp.trace)}

\* C12: after cleanupAll every tracked collection is empty and nothing that
\* was registered through the registry is attached, connected or armed, a
\* cleanup callback that registers during the release included.
C12_NothingSurvivesCleanup ==
    lastOp.name = "cleanupAll"
        => /\ AllEmpty(Cur)
           /\ attached = {}
           /\ pendingTimeouts = {}
           /\ activeIntervals = {}

\* the timer with this id is armed in the browser
Armed(m, id) ==
    \E t \in m.pendingTimeouts \cup m.activeIntervals : t.id = id

\* a timer that is not armed is never armed again and its callback does not
\* run: ids are not handed out twice
UnarmedNeverRuns ==
    \A id \in TimerIds :
        ~Armed(Cur, id)
            => /\ ~Armed(Cur', id)
               /\ \A c \in CallsOf(lastOp'.trace, "callback") : c.id # id

\* C13: clearTimeout of a tracked one-shot timer that has not fired removes
\* the id from timeouts and disarms the timer, clearInterval of a tracked
\* repeating timer removes the id from intervals and disarms the timer, and
\* the callback of a disarmed timer never runs afterwards.
C13_CancelledNeverRuns ==
    [][/\ \A id \in Range(timeouts) :
             LET m == clearTimeout(Cur, id)
             IN  /\ Armed(Cur, id)
                 /\ id \notin Range(m.timeouts)
                 /\ ~Armed(m, id)
                 /\ ~m.threw
       /\ \A id \in Range(intervals) :
             LET m == clearInterval(Cur, id)
             IN  /\ Armed(Cur, id)
                 /\ id \notin Range(m.intervals)
                 /\ ~Armed(m, id)
                 /\ ~m.threw
       /\ UnarmedNeverRuns]_vars

\* a one-shot timer was cancelled before it fired, while another timer runs on
C13_Witness ==
    /\ lastOp.name = "clearTimeout"
    /\ Len(lastOp.trace) = 1
    /\ ~Armed(Cur, lastOp.trace[1].id)
    /\ lastOp.trace[1].id \notin Range(timeouts)
    /\ pendingTimeouts \cup activeIntervals # {}

\* the call did not throw and left the collections and the page as they were
SameState(m, before) ==
    /\ ~m.threw
    /\ [m EXCEPT !.trace = <<>>, !.result = "undefined"] = before

\* C14: clearTimeout with an id not in timeouts (fired, cancelled, never
\* handed out, or the id of a repeating timer), clearInterval with an id not
\* in intervals and removeCleanupCallback with a callback not registered do
\* not throw, clear no timer of the browser and change nothing.
C14_AbsentTargetsTolerated ==
    /\ \A id \in TimerIds \cup {nextTimer} :
          /\ id \notin Range(timeouts) => SameState(clearTimeout(Cur, id), Cur)
          /\ id \notin Range(intervals) => SameState(clearInterval(Cur, id), Cur)
    /\ \A callback \in CleanupFns :
          callback \notin Range(cleanupCallbacks)
              => SameState(removeCleanupCallback(Cur, callback), Cur)

\* clearTimeout was called with an id that is not a tracked one-shot timer
\* while a repeating timer is armed: nothing was cleared
C14_Witness ==
    /\ lastOp.name = "clearTimeout"
    /\ lastOp.trace = <<>>
    /\ ~lastOp.threw
    /\ timeouts = <<>>
    /\ Len(intervals) = 1
    /\ activeIntervals # {}

\* C15: when the element's detach throws in removeEventListener, the
\* exception reaches the caller and eventListeners is as before: the matched
\* record is still tracked under its element, and no other collection changes.
C15_ThrowingDetachPropagates ==
    \A element \in Owners, event \in Events,
       handler \in {Fn(h) : h \in Handlers} \cup BoundHandlers :
        ~NoMatch(element, event, handler)
            => LET m == removeEventListener(Cur, element, event, handler, TRUE)
               IN  /\ m.threw
                   /\ CallsOf(m.trace, "detach") # {}
                   /\ m.eventListeners = eventListeners
                   /\ MapHas(m.eventListeners, element)
                   /\ [m EXCEPT !.threw = FALSE, !.trace = <<>>] = Cur

\* a removeEventListener whose detach threw, the record still tracked
C15_Witness ==
    /\ lastOp.name = "removeEventListener"
    /\ lastOp.threw
    /\ Len(lastOp.trace) = 1
    /\ \E r \in Records(eventListeners) :
          r.record.handler.bind = lastOp.trace[1].id

\* the listeners recorded under an element, and those attached to it
Recorded(m, element) ==
    {<<r.record.event, r.record.handler>> :
        r \in {x \in Records(m.eventListeners) : x.element = element}}

Attached(m, element) ==
    {<<a.event, a.handler>> : a \in {x \in m.attached : x.element = element}}

Tracking(m) == \A element \in Owners : Recorded(m, element) = Attached(m, element)

\* a call of addEventListener, removeEventListener or cleanupAll made with no
\* cleanup callback registered and in which no attach and no detach threw
CleanListenerStep ==
    /\ lastOp'.name \in {"addEventListener", "removeEventListener", "cleanupAll"}
    /\ cleanupCallbacks = <<>>
    /\ \A i \in 1..Len(lastOp'.trace) : ~lastOp'.trace[i].threw

\* C16: starting with nothing recorded and nothing attached, every call of
\* addEventListener, removeEventListener and cleanupAll in which no attach or
\* detach throws keeps, for every element, the recorded (event, wrapped
\* handler) pairs equal to the listeners attached to it; and after such a
\* cleanupAll no listener is attached to any element.
C16_TrackingMatchesAttached ==
    [][(Tracking(Cur) /\ CleanListenerStep)
          => /\ Tracking(Cur')
             /\ lastOp'.name = "cleanupAll" => attached' = {}]_vars

\* a cleanupAll that detached two listeners, all of them
C16_Witness ==
    /\ lastOp.name = "cleanupAll"
    /\ Cardinality(CallsOf(lastOp.trace, "detach")) = 2
    /\ \A i \in 1..Len(lastOp.trace) : ~lastOp.trace[i].threw
    /\ attached = {}
    /\ eventListeners = <<>>

\* C17: when the element's attach throws in addEventListener, no record of
\* that registration is left in eventListeners, and the element is not a key
\* on its account.
C17_NoRecordOfFailedAttach ==
    (lastOp.name = "addEventListener" /\ lastOp.threw)
        => /\ \A r \in Records(eventListeners) :
                 r.record.handler.bind # lastOp.trace[1].id
           /\ \A i \in 1..Len(eventListeners) :
                 \E j \in 1..Len(eventListeners[i].listeners) :
                    eventListeners[i].listeners[j].handler.bind # lastOp.trace[1].id

\* how often a cleanupAll invoked the cleanup callback
Invocations(trace, callback) ==
    Cardinality({i \in 1..Len(trace) :
                    trace[i].call = "cleanup" /\ trace[i].fn = callback})

\* the callbacks a cleanupAll has to invoke: those registered when it is
\* called, and "done", which the callback "registers" registers while it runs
Registered(m) ==
    Range(m.cleanupCallbacks)
        \cup (IF "registers" \in Range(m.cleanupCallbacks) THEN {"done"} ELSE {})

\* C18: cleanupAll invokes every registered cleanup callback once and no
\* other callback, and leaves none registered, so that a later cleanupAll
\* invokes a callback only if it was registered again; a callback is
\* registered after addCleanupCallback and not registered after
\* removeCleanupCallback, which touches no other callback.
C18_CallbacksRunOnce ==
    [][/\ lastOp'.name = "cleanupAll"
             => /\ \A callback \in CleanupFns :
                      Invocations(lastOp'.trace, callback) =
                          IF callback \in Registered(Cur) THEN 1 ELSE 0
                /\ cleanupCallbacks' = <<>>
       /\ \A callback \in CleanupFns :
             /\ callback \in Range(addCleanupCallback(Cur, callback).cleanupCallbacks)
             /\ Range(removeCleanupCallback(Cur, callback).cleanupCallbacks) =
                    Range(cleanupCallbacks) \ {callback}
       /\ lastOp'.name \notin {"addCleanupCallback", "removeCleanupCallback",
                               "cleanupAll"}
             => cleanupCallbacks' = cleanupCallbacks]_vars

\* a cleanupAll that invoked two registered callbacks, one of which threw
C18_Witness ==
    /\ lastOp.name = "cleanupAll"
    /\ Invocations(lastOp.trace, "fails") = 1
    /\ Invocations(lastOp.trace, "done") = 1
    /\ cleanupCallbacks = <<>>

\* C19: when cleanupAll returns, no timer scheduled before the call is armed,
\* one-shot or repeating, and a timer that is not armed does not run later.
C19_NoTimerSurvivesCleanup ==
    [][/\ lastOp'.name = "cleanupAll" => \A id \in TimerIds : ~Armed(Cur', id)
       /\ UnarmedNeverRuns]_vars

\* a cleanupAll that cleared a one-shot and a repeating timer
C19_Witness ==
    /\ lastOp.name = "cleanupAll"
    /\ CallsOf(lastOp.trace, "clearTimeout") # {}
    /\ CallsOf(lastOp.trace, "clearInterval") # {}
    /\ pendingTimeouts = {}
    /\ activeIntervals = {}

\* C20: when a one-shot timer fires, its id is out of timeouts when the
\* callback is called and when the firing ends, whether the callback returns
\* or throws; the exception of a throwing callback is not caught, and no
\* other id leaves timeouts.
C20_UntrackedBeforeCallback ==
    \A timer \in pendingTimeouts :
        LET m == TimeoutFired(Cur, timer)
        IN  /\ timer.id \in Range(timeouts)
            /\ ~m.result.tracked
            /\ m.timeouts = SetDelete(timeouts, timer.id)
            /\ m.threw = (timer.fn = "tickThrows")
            /\ \E c \in CallsOf(m.trace, "callback") : c.id = timer.id /\ c.fn = timer.fn

\* a one-shot timer fired, its callback threw, its id is untracked while
\* another one-shot timer is still tracked
C20_Witness ==
    /\ lastOp.name = "timeout"
    /\ lastOp.threw
    /\ ~lastOp.result.tracked
    /\ Len(timeouts) = 1
    /\ lastOp.trace[1].id \notin Range(timeouts)

====
